---- MODULE Spec2Model ----
(***************************************************************************)
(* Country/exchange-rate REST service (src/main.py and src/services/).     *)
(* The state is the relational store (tables countries and country_db),    *)
(* the cached summary image cache/summary.png and the wall clock; every    *)
(* action is one HTTP request handled to completion.  All handlers are     *)
(* `async def` and the database calls in them are synchronous, so a        *)
(* handler's database section runs without suspension.                     *)
(*                                                                         *)
(* Strings are sequences of one-character strings, so that lower(), LIKE   *)
(* and substring tests are computed.  An optional value (a nullable        *)
(* column, Python None) is the empty sequence None or the one-element      *)
(* sequence Some(v).  The pass-through columns capital and flag_url are    *)
(* left out: no handler reads them.                                        *)
(***************************************************************************)
EXTENDS Integers, Sequences, FiniteSets, TLC

VARIABLES
    countries,    \* table countries, in id order (what query.all() returns)
    country_db,   \* table country_db (CountryDBInstance rows), in id order
    nextId,       \* autoincrement counters: [country |-> n, db |-> n]
    image,        \* cache/summary.png: NoImage or the rendered content
    clock,        \* last value datetime.now() returned to a handler
    last,         \* the last request and the response it was given
    tasks,        \* per client, the refresh handler it has suspended at a fetch
    storage,      \* the limiter's storage: hits per route and client this minute
    served        \* history: handler runs per route and client this minute

vars == <<countries, country_db, nextId, image, clock, last, tasks, storage, served>>

-----------------------------------------------------------------------------
(* Bounds and program constants *)

MaxClock == 2
MaxServed == 9      \* handler runs counted per route and client in one minute
RateLimit == 8      \* "8/minute"

RandLo == 1000
RandHi == 2000
Top5 == 5

HTTP_200 == 200
HTTP_201 == 201
HTTP_307 == 307
HTTP_429 == 429
HTTP_400 == 400
HTTP_404 == 404
HTTP_500 == 500
HTTP_502 == 502
HTTP_503 == 503

-----------------------------------------------------------------------------
(* Optional values and strings *)

None == <<>>
Some(v) == <<v>>
Val(o) == o[1]

Fold == [A |-> "a", B |-> "b", C |-> "c", D |-> "d", E |-> "e", S |-> "s", U |-> "u"]

LowerChar(c) == IF c \in DOMAIN Fold THEN Fold[c] ELSE c

\* str.lower() and SQL lower()
Lower(s) == [i \in 1..Len(s) |-> LowerChar(s[i])]

\* SQL LIKE: % matches any run of characters, _ matches exactly one
RECURSIVE LikeMatch(_, _)
LikeMatch(pat, s) ==
    IF pat = <<>> THEN s = <<>>
    ELSE IF Head(pat) = "%"
         THEN LikeMatch(Tail(pat), s) \/ (s # <<>> /\ LikeMatch(pat, Tail(s)))
    ELSE IF Head(pat) = "_"
         THEN s # <<>> /\ LikeMatch(Tail(pat), Tail(s))
    ELSE s # <<>> /\ Head(s) = Head(pat) /\ LikeMatch(Tail(pat), Tail(s))

\* column.ilike(pattern): lower(column) LIKE lower(pattern); NULL never matches
ILike(col, pat) == col # None /\ LikeMatch(Lower(pat), Lower(Val(col)))

\* f"%{text}%"
Wrap(text) == <<"%">> \o text \o <<"%">>

\* .first(): the least of the indices the filter selects, 0 when it selects none
FirstIndex(hits) ==
    IF hits = {} THEN 0 ELSE CHOOSE i \in hits : \A j \in hits : i <= j

RemoveAt(rows, i) == SubSeq(rows, 1, i-1) \o SubSeq(rows, i+1, Len(rows))

-----------------------------------------------------------------------------
(* Upstream payloads: what the two external sources may answer *)

ab == <<"a", "b">>
Ab == <<"A", "b">>
cb == <<"c", "b">>
cd == <<"c", "d">>
US == <<"U", "S">>
EU == <<"E", "U">>
Eu == <<"E", "u">>
As == <<"A", "s">>

Currency(code, symbol) == [code |-> code, symbol |-> symbol]

\* the `currencies` key of an upstream country: missing, JSON null, or a list
KeyMissing == [key |-> FALSE, val |-> None]
JsonNull == [key |-> TRUE, val |-> None]
JsonList(l) == [key |-> TRUE, val |-> Some(l)]

RawCountry(name, region, population, currencies) ==
    [name |-> name, region |-> region, population |-> population, currencies |-> currencies]

rcAbUs == RawCountry(ab, Some(Eu), 2, JsonList(<<Currency(US, <<"$">>), Currency(EU, <<"e">>)>>))
rcAbNoCur == RawCountry(Ab, None, 3, KeyMissing)
rcCbUsNoSym == RawCountry(cb, Some(As), 1, JsonList(<<Currency(US, <<>>)>>))
rcCdEu == RawCountry(cd, Some(Eu), 2, JsonList(<<Currency(EU, <<"e">>)>>))
rcNullCur == RawCountry(cb, Some(Eu), 1, JsonNull)
rcEmptyCur == RawCountry(cb, Some(Eu), 1, JsonList(<<>>))

HttpError == [ok |-> FALSE]
HttpJson(body) == [ok |-> TRUE, body |-> body]

\* answers of the country source: a network/HTTP error or a JSON list
CountryAnswers ==
    { HttpError } \cup
    { HttpJson(p) : p \in { <<>>,
                            <<rcAbNoCur, rcCbUsNoSym>>,
                            <<rcAbUs, rcAbNoCur>>,
                            <<rcCdEu, rcCbUsNoSym>>,
                            <<rcAbUs, rcNullCur>>,
                            <<rcEmptyCur>> } }

RatePayload(result, rates) == [result |-> result, rates |-> rates]

\* answers of the exchange rate source; rates is a dict currency code -> rate
RateAnswers ==
    { HttpError,
      HttpJson(RatePayload("success", (US :> 2))),
      HttpJson(RatePayload("success", (US :> 0))),
      HttpJson(RatePayload("error", <<>>)) }

\* values randint(1000, 2000) is let to return
RandInts == {RandLo, RandHi}

-----------------------------------------------------------------------------
(* Outcome of a call: a returned value or a raised exception *)

Return(v) == [raised |-> FALSE, value |-> v]
Raise(exc) == [raised |-> TRUE, exc |-> exc]

\* core/exceptions.py: AppException subclasses carry their status code
NotFoundException == [kind |-> "AppException", status_code |-> HTTP_404]
BadRequestException == [kind |-> "AppException", status_code |-> HTTP_400]
ExternalServiceException == [kind |-> "AppException", status_code |-> HTTP_502]
\* main.py imports ExternalServiceUnavailable from core.exceptions
ExternalServiceUnavailable == [kind |-> "AppException", status_code |-> HTTP_503]
\* TypeError, pydantic ValidationError: not AppException
TypeError == [kind |-> "TypeError", status_code |-> 0]
ValidationError == [kind |-> "ValidationError", status_code |-> 0]

\* core/error_handlers.py: the status a raised exception is answered with
ExceptionStatus(exc) ==
    IF exc.kind = "AppException" THEN exc.status_code ELSE HTTP_500

\* services/http_client.py
safe_http_request(answer) ==
    IF answer.ok THEN Return(answer.body) ELSE Raise(ExternalServiceException)

\* pydantic validation of CountryItem.currencies: Currency
CurrencyArg(country) ==
    LET c == country.currencies IN
    IF c.val # None /\ Val(c.val) # <<>> THEN Some(Val(c.val)[1])   \* currencies[0]
    ELSE IF ~c.key THEN Some(Currency(<<>>, <<>>))                  \* .get default
    ELSE None                                                       \* None or []

CountryItem(country) ==
    [name |-> country.name, region |-> country.region, population |-> country.population,
     currencies |-> Val(CurrencyArg(country))]

\* services/country_data.py
fetch_all_countries(answer) ==
    LET r == safe_http_request(answer) IN
    IF r.raised THEN r
    ELSE IF r.value = <<>> THEN Raise(TypeError)    \* set literal holding a dict
    ELSE IF \E i \in 1..Len(r.value) : CurrencyArg(r.value[i]) = None
         THEN Raise(ValidationError)
    ELSE Return([i \in 1..Len(r.value) |-> CountryItem(r.value[i])])

DictGet(d, k) == IF k \in DOMAIN d THEN Some(d[k]) ELSE None

\* truthiness of an optional number
Truthy(o) == o # None /\ Val(o) # 0

CurrencyCode(item) ==
    IF item.currencies.code # <<>> THEN Some(item.currencies.code) ELSE None

ExchangeRate(item, rates) ==
    IF CurrencyCode(item) # None THEN DictGet(rates, Val(CurrencyCode(item))) ELSE None

\* the condition under which extract_rate evaluates randint for an item
DrawsRandint(item, rates) ==
    item.currencies.code # <<>> /\ Truthy(ExchangeRate(item, rates))

\* one iteration of the loop of extract_rate; m is what randint returns
MergedItem(item, rates, m) ==
    LET currency_code == CurrencyCode(item)
        exchange_rate == ExchangeRate(item, rates)
        estimated_gdp ==
            IF DrawsRandint(item, rates)
            THEN Some(item.population * m * Val(exchange_rate))
            ELSE IF item.currencies.symbol = <<>> THEN Some(0) ELSE None
    IN [name |-> item.name, region |-> item.region, population |-> item.population,
        currency_code |-> currency_code, exchange_rate |-> exchange_rate,
        estimated_gdp |-> estimated_gdp]

\* the items of data for which extract_rate will call randint
RandintCalls(data, answer) ==
    IF answer.ok /\ answer.body.result = "success"
    THEN { i \in 1..Len(data) : DrawsRandint(data[i], answer.body.rates) }
    ELSE {}

\* services/country_exchange_rate.py; ms[i] is what randint returns for item i
extract_rate(data, answer, ms) ==
    LET r == safe_http_request(answer) IN
    IF r.raised THEN r
    ELSE IF r.value.result # "success" THEN Raise(TypeError)   \* set literal holding a dict
    ELSE Return([i \in 1..Len(data) |->
                    MergedItem(data[i], r.value.rates, IF i \in DOMAIN ms THEN ms[i] ELSE 0)])

-----------------------------------------------------------------------------
(* The store: model/index.py and the session of model/database.py *)

NoImage == [exists |-> FALSE]

\* Country row
Country(id, item, now, db_id) ==
    [id |-> id, name |-> item.name, region |-> item.region, population |-> item.population,
     currency_code |-> item.currency_code, exchange_rate |-> item.exchange_rate,
     estimated_gdp |-> item.estimated_gdp, last_refreshed_at |-> now, db_id |-> db_id]

\* CountryDBInstance row
CountryDBInstance(id, now) == [id |-> id, last_refreshed_at |-> now]

\* SessionLocal: a query sees the rows the session has added but not yet
\* committed (the session flushes before it queries)
Autoflush == TRUE

\* `c.estimated_gdp or 0`
GdpKey(c) == IF Truthy(c.estimated_gdp) THEN Val(c.estimated_gdp) ELSE 0

\* sorted(rows, key=GdpKey, reverse=reverse): stable in both directions
RECURSIVE InsertSorted(_, _, _)
InsertSorted(acc, x, reverse) ==
    IF acc = <<>> THEN <<x>>
    ELSE IF (IF reverse THEN GdpKey(x) > GdpKey(Head(acc)) ELSE GdpKey(x) < GdpKey(Head(acc)))
         THEN <<x>> \o acc
    ELSE <<Head(acc)>> \o InsertSorted(Tail(acc), x, reverse)

RECURSIVE ReverseSeq(_)
ReverseSeq(s) == IF s = <<>> THEN <<>> ELSE Append(ReverseSeq(Tail(s)), Head(s))

RECURSIVE SortedAscending(_)
SortedAscending(rows) ==
    IF rows = <<>> THEN <<>>
    ELSE InsertSorted(SortedAscending(SubSeq(rows, 1, Len(rows)-1)), rows[Len(rows)], FALSE)

\* faulty variant of sorted: descending order got by reversing the ascending result
sortedByReversal(rows, reverse) ==
    IF reverse THEN ReverseSeq(SortedAscending(rows)) ELSE SortedAscending(rows)

RECURSIVE sorted(_, _)
sorted(rows, reverse) ==
    IF rows = <<>> THEN <<>>
    ELSE InsertSorted(sorted(SubSeq(rows, 1, Len(rows)-1), reverse), rows[Len(rows)], reverse)

\* main.py create_image: what the picture shows
create_image(rows, last_refreshed_at) ==
    LET top_5 == SubSeq(sorted(rows, TRUE), 1, IF Len(rows) < Top5 THEN Len(rows) ELSE Top5)
    IN [exists |-> TRUE, total |-> Len(rows),
        top |-> [i \in 1..Len(top_5) |-> top_5[i].name],
        last_refreshed_at |-> last_refreshed_at]

\* faulty variant of NameMatches: the names compared as they are
NameMatchesCaseSensitive(row, item) == row.name = item.name

\* main.py fetch_countries, the match by name of the upsert loop
NameMatches(row, item) == Lower(row.name) = Lower(item.name)

\* faulty variant of UpsertItem: every item is inserted, none looked up
UpsertItemInsertOnly(st, item, n0, now, db_id) ==
    [rows |-> Append(st.rows, Country(st.next, item, now, db_id)), next |-> st.next + 1]

\* main.py fetch_countries, one iteration of the upsert loop; n0 is the number
\* of rows committed before the loop
UpsertItem(st, item, n0, now, db_id) ==
    LET visible == IF Autoflush THEN st.rows ELSE SubSeq(st.rows, 1, n0)
        k == FirstIndex({ i \in 1..Len(visible) : NameMatches(visible[i], item) })
    IN IF k # 0
       THEN [st EXCEPT !.rows[k] =
                [@ EXCEPT !.region = item.region, !.population = item.population,
                          !.currency_code = item.currency_code,
                          !.exchange_rate = item.exchange_rate,
                          !.estimated_gdp = item.estimated_gdp,
                          !.last_refreshed_at = now]]
       ELSE [rows |-> Append(st.rows, Country(st.next, item, now, db_id)),
             next |-> st.next + 1]

RECURSIVE UpsertAll(_, _, _, _, _)
UpsertAll(st, items, n0, now, db_id) ==
    IF items = <<>> THEN st
    ELSE UpsertAll(UpsertItem(st, Head(items), n0, now, db_id), Tail(items), n0, now, db_id)

-----------------------------------------------------------------------------
(* Requests *)

\* `again` is history: the request is a refresh that succeeded on the same
\* upstream answers as the request right before it, a refresh that succeeded
Response(op, arg, status, body) ==
    [op |-> op, arg |-> arg, status |-> status, body |-> body, again |-> FALSE]

SameRefresh(arg) ==
    /\ last.op = "refresh"
    /\ last.status = HTTP_201
    /\ last.arg.countries = arg.countries
    /\ last.arg.rates = arg.rates

ReqNames == { ab, <<"A", "B">>, <<"_", "b">>, <<"%">> }
CurrencyFilters == { None, Some(<<"u">>), Some(<<"_">>) }
RegionFilters == { None, Some(<<"e">>) }
SortValues == { None, Some("gbd_desc"), Some("gdb_incr"), Some("gdp_desc") }
RenderOutcomes == { "ok", "OSError" }

\* the list requests made: a request that filters by currency asks for no sort
ListQueries ==
    { q \in [currency : CurrencyFilters, region : RegionFilters, sort : SortValues] :
        q.currency = None \/ q.sort = None }

Clients == { "c1", "c2" }

\* no refresh handler of the client is suspended; `passed` and `status` are
\* history of its last one: whether another client's refresh wrote the store
\* while it was suspended, and the status it was answered with
Idle(passed, status) ==
    [pc |-> "idle", ca |-> None, passed |-> passed, status |-> status]

\* the routes declared under @limiter.limit that the limiter runs exercise
LimitedRoutes == { "get_image", "get_country" }
Keys == LimitedRoutes \X Clients

Init ==
    /\ tasks = [c \in Clients |-> Idle(FALSE, 0)]
    /\ storage = [k \in Keys |-> 0]
    /\ served = [k \in Keys |-> 0]
    /\ countries = <<>>
    /\ country_db = <<>>
    /\ nextId = [country |-> 1, db |-> 1]
    /\ image = NoImage
    /\ clock = 0
    /\ last = Response("start", None, 0, None)

\* POST /countries/refresh, a request that fails before the database is opened
RefreshFails(arg, exc) ==
    /\ last' = Response("refresh", arg, ExceptionStatus(exc), None)
    /\ UNCHANGED <<countries, country_db, nextId, image, clock>>

\* faulty variant of NeedsBatch: every refresh adds a batch row
NeedsBatchAlways(db) == TRUE

\* main.py fetch_countries: `if not country_db` after .first()
NeedsBatch(db) == db = <<>>

\* POST /countries/refresh, from the opening of the session on
RefreshStore(arg, response, render) ==
    LET now == clock + 1
        created == NeedsBatch(country_db)
        db1 == IF created THEN Append(country_db, CountryDBInstance(nextId.db, now))
               ELSE country_db
        b == IF created THEN Len(db1) ELSE 1       \* the row `country_db` names
        st == UpsertAll([rows |-> countries, next |-> nextId.country], response,
                        Len(countries), now, db1[b].id)
        db2 == [db1 EXCEPT ![b].last_refreshed_at = now]
    IN /\ clock' = now
       /\ countries' = st.rows
       /\ country_db' = db2
       /\ nextId' = [country |-> st.next, db |-> IF created THEN nextId.db + 1 ELSE nextId.db]
       /\ IF render = "ok"
          THEN /\ image' = create_image(st.rows, now)
               /\ last' = [Response("refresh", arg, HTTP_201, response)
                               EXCEPT !.again = SameRefresh(arg)]
          ELSE /\ image' = image
               /\ last' = Response("refresh", arg, HTTP_500, None)

\* the session is opened, written and committed, and the image rendered,
\* without suspension; `render` is whether writing the image succeeds
Refreshed(arg, response) ==
    \E render \in RenderOutcomes :
      RefreshStore([arg EXCEPT !.render = Some(render)], response, render)

\* fetch_countries from the answer to the rate request on: the rest of
\* extract_rate, `if not response`, the session and the image
AfterRates(ca, countries_data, ra, ms) ==
    LET arg == [countries |-> ca, rates |-> Some(ra), render |-> None]
        response == extract_rate(countries_data, ra, ms)
    IN IF response.raised THEN RefreshFails(arg, response.exc)
       ELSE IF response.value = <<>>            \* `if not response`
            THEN RefreshFails(arg, ExternalServiceUnavailable)
       ELSE Refreshed(arg, response.value)

\* fetch_countries when the answer to the country request fails the handler
AfterCountriesFails(ca, exc) ==
    RefreshFails([countries |-> ca, rates |-> None, render |-> None], exc)

fetch_countries ==
    /\ clock < MaxClock
    /\ \E ca \in CountryAnswers :
         LET countries_data == fetch_all_countries(ca)
         IN IF countries_data.raised
            THEN AfterCountriesFails(ca, countries_data.exc)
            ELSE \E ra \in RateAnswers :
                 \E ms \in [RandintCalls(countries_data.value, ra) -> RandInts] :
                   AfterRates(ca, countries_data.value, ra, ms)

-----------------------------------------------------------------------------
(* Overlapping refreshes: the handler as the event loop runs it. It suspends *)
(* at the request of fetch_all_countries and at the request of extract_rate; *)
(* from the answer to the second on it has no await that yields (the session *)
(* calls are synchronous, create_image awaits nothing).                      *)

\* the upstream answers the overlapping requests are given
OverlapCountryAnswers ==
    { HttpError, HttpJson(<<rcAbNoCur, rcCbUsNoSym>>), HttpJson(<<rcAbUs, rcAbNoCur>>) }

\* client c's handler returns; the handlers still suspended note a write
Finish(c) ==
    tasks' = [d \in Clients |->
                IF d = c THEN Idle(tasks[c].passed, last'.status)
                ELSE IF tasks[d].pc # "idle" /\ clock' # clock
                     THEN [tasks[d] EXCEPT !.passed = TRUE]
                ELSE tasks[d]]

\* POST /countries/refresh arrives and runs to its first await
refresh_begin ==
    /\ \E c \in Clients :
         /\ tasks[c].pc = "idle"
         /\ tasks' = [tasks EXCEPT ![c] = [Idle(FALSE, 0) EXCEPT !.pc = "fetch_all_countries"]]
    /\ UNCHANGED <<countries, country_db, nextId, image, clock, last, storage, served>>

\* the country source answers: the handler runs to its second await
refresh_countries ==
    /\ \E c \in Clients, ca \in OverlapCountryAnswers :
         /\ tasks[c].pc = "fetch_all_countries"
         /\ LET countries_data == fetch_all_countries(ca)
            IN IF countries_data.raised
               THEN /\ AfterCountriesFails(ca, countries_data.exc)
                    /\ Finish(c)
               ELSE /\ tasks' = [tasks EXCEPT ![c].pc = "extract_rate", ![c].ca = Some(ca)]
                    /\ UNCHANGED <<countries, country_db, nextId, image, clock, last>>
    /\ UNCHANGED <<storage, served>>

\* the rate source answers: the handler runs to its response
refresh_rates ==
    /\ clock < MaxClock
    /\ \E c \in Clients :
         /\ tasks[c].pc = "extract_rate"
         /\ LET ca == Val(tasks[c].ca)
                countries_data == fetch_all_countries(ca).value
            IN \E ra \in RateAnswers :
               \E ms \in [RandintCalls(countries_data, ra) -> RandInts] :
                 AfterRates(ca, countries_data, ra, ms)
         /\ Finish(c)
    /\ UNCHANGED <<storage, served>>

NextOverlap ==
    \/ refresh_begin
    \/ refresh_countries
    \/ refresh_rates

SpecOverlap == Init /\ [][NextOverlap]_vars

\* faulty variant of RemoveSummary: the cached image is left in place
KeepSummary(img) == img

\* main.py clear_countries: os.remove(image_path) if it exists
RemoveSummary(img) == IF img.exists THEN NoImage ELSE img

\* faulty variant of ResetBatch: the batch rows are deleted
DeleteBatch(db, now) == <<>>

\* main.py clear_countries: the first batch row, if any, is stamped anew
ResetBatch(db, now) ==
    IF db # <<>> THEN [db EXCEPT ![1].last_refreshed_at = now] ELSE db

\* DELETE /countries/clear
clear_countries ==
    /\ clock < MaxClock
    /\ LET now == clock + 1 IN
       /\ clock' = now
       /\ countries' = <<>>
       /\ country_db' = ResetBatch(country_db, now)
       /\ image' = RemoveSummary(image)
       /\ last' = Response("clear", None, HTTP_200, Some(Len(countries)))
    /\ UNCHANGED nextId

\* GET /countries/image
get_image ==
    /\ last' = IF ~image.exists
               THEN Response("image", None, HTTP_200, Some(NotFoundException))  \* returned, not raised
               ELSE Response("image", None, HTTP_200, Some(image))
    /\ UNCHANGED <<countries, country_db, nextId, image, clock>>

\* GET /countries?currency=&sort=&region=
QueryCountries(rows, currency, region) ==
    LET q1 == IF currency # None /\ Val(currency) # <<>>
              THEN SelectSeq(rows, LAMBDA c : ILike(c.currency_code, Wrap(Val(currency))))
              ELSE rows
    IN IF region # None /\ Val(region) # <<>>
       THEN SelectSeq(q1, LAMBDA c : ILike(c.region, Wrap(Val(region))))
       ELSE q1

SortCountries(rows, sort) ==
    IF sort = Some("gbd_desc") THEN sorted(rows, TRUE)
    ELSE IF sort = Some("gdb_incr") THEN sorted(rows, FALSE)
    ELSE rows

get_all_countries ==
    /\ \E arg \in ListQueries :
         LET found == QueryCountries(countries, arg.currency, arg.region)
         IN last' = IF found = <<>>
                    THEN Response("list", arg, ExceptionStatus(NotFoundException), None)
                    ELSE Response("list", arg, HTTP_200, SortCountries(found, arg.sort))
    /\ UNCHANGED <<countries, country_db, nextId, image, clock>>

\* Country.name.ilike(country_name) ... .first()
FindByName(rows, country_name) ==
    FirstIndex({ i \in 1..Len(rows) : ILike(Some(rows[i].name), country_name) })

\* the path parameter {country_name} matches one or more characters other
\* than "/": GET /countries/ matches no route
MatchesCountryName(segment) == segment # <<>>

\* the router's answer to GET /countries/ : a redirect to /countries, the
\* route that matches the path without its trailing slash
RedirectSlashes(segment) ==
    Response("get", segment, HTTP_307, Some([location |-> "/countries"]))

\* the body of get_country
GetCountry(rows, country_name) ==
    LET k == FindByName(rows, country_name)
    IN IF country_name = <<>>
       THEN Response("get", country_name, ExceptionStatus(BadRequestException), None)
       ELSE IF k = 0
       THEN Response("get", country_name, ExceptionStatus(NotFoundException), None)
       ELSE Response("get", country_name, HTTP_200, Some(rows[k]))

\* GET /countries/{country_name}, the name segment possibly empty
get_country ==
    /\ \E segment \in ReqNames \cup {<<>>} :
         last' = IF MatchesCountryName(segment)
                 THEN GetCountry(countries, segment)
                 ELSE RedirectSlashes(segment)
    /\ UNCHANGED <<countries, country_db, nextId, image, clock>>

\* DELETE /countries/{country_name}
remove_country ==
    /\ \E country_name \in ReqNames :
         LET k == FindByName(countries, country_name)
         IN IF country_name = <<>> \/ k = 0
            THEN /\ last' = Response("delete", country_name,
                                     ExceptionStatus(IF country_name = <<>>
                                                     THEN BadRequestException
                                                     ELSE NotFoundException), None)
                 /\ UNCHANGED countries
            ELSE /\ last' = Response("delete", country_name, HTTP_200, None)
                 /\ countries' = RemoveAt(countries, k)
    /\ UNCHANGED <<country_db, nextId, image, clock>>

\* faulty variant of HealthBody: the message spelled otherwise
HealthBodyUpper == [success |-> TRUE, message |-> "OK"]

\* main.py health_check: the JSON content
HealthBody == [success |-> TRUE, message |-> "Ok"]

\* GET /health
health_check ==
    /\ last' = Response("health", None, HTTP_200, Some(HealthBody))
    /\ UNCHANGED <<countries, country_db, nextId, image, clock>>

\* requests served one after the other, each handler run from its first
\* line to its response, the requests not counted
Serial == UNCHANGED <<tasks, storage, served>>

Next ==
    \/ health_check /\ Serial
    \/ fetch_countries /\ Serial
    \/ clear_countries /\ Serial
    \/ get_image /\ Serial
    \/ get_all_countries /\ Serial
    \/ get_country /\ Serial
    \/ remove_country /\ Serial

Spec == Init /\ [][Next]_vars

-----------------------------------------------------------------------------
(* The limiter. Every limited route is declared as                          *)
(*     @limiter.limit("8/minute")                                           *)
(*     @app.get(path)                                                       *)
(*     async def f(request, ...)                                            *)
(* Decorators apply bottom up: app.get(path) registers f with the router    *)
(* and returns f; limiter.limit then wraps f and binds the wrapper to the   *)
(* module's name f, which no route refers to. No limiter middleware is      *)
(* added to app.                                                            *)

\* the callable the router holds for a limited route
RouteEndpoint(route) == "function"

\* the handler of a limited route
Handler(route) == IF route = "get_image" THEN get_image ELSE get_country

\* the answer of the RateLimitExceeded handler registered on app
RateLimitExceeded ==
    Response("limit", None, HTTP_429,
             Some([success |-> FALSE, error |-> "Too many requests, please slow down."]))

\* the limiter's wrapper around a handler, keyed by get_remote_address
LimitWrapper(route, c) ==
    IF storage[<<route, c>>] >= RateLimit
    THEN /\ last' = RateLimitExceeded
         /\ UNCHANGED <<countries, country_db, nextId, image, clock, storage, served>>
    ELSE /\ storage' = [storage EXCEPT ![<<route, c>>] = @ + 1]
         /\ Handler(route)
         /\ served' = [served EXCEPT ![<<route, c>>] = @ + 1]

\* a request of client c to a limited route, as the router serves it
Dispatch(route, c) ==
    /\ served[<<route, c>>] < MaxServed
    /\ IF RouteEndpoint(route) = "wrapper"
       THEN LimitWrapper(route, c)
       ELSE /\ Handler(route)
            /\ served' = [served EXCEPT ![<<route, c>>] = @ + 1]
            /\ UNCHANGED storage
    /\ UNCHANGED tasks

limited_get_image == \E c \in Clients : Dispatch("get_image", c)

limited_get_country == \E c \in Clients : Dispatch("get_country", c)

\* the minute ends: the limiter's window and the count of runs start anew
next_minute ==
    /\ storage' = [k \in Keys |-> 0]
    /\ served' = [k \in Keys |-> 0]
    /\ UNCHANGED <<countries, country_db, nextId, image, clock, last, tasks>>

NextLimit ==
    \/ limited_get_image
    \/ limited_get_country
    \/ next_minute

SpecLimit == Init /\ [][NextLimit]_vars

-----------------------------------------------------------------------------
(* Properties *)

Names(rows) == { Lower(rows[i].name) : i \in 1..Len(rows) }

\* s contains sub, compared case-insensitively
Contains(s, sub) ==
    \E i \in 1..(Len(s) - Len(sub) + 1) :
        SubSeq(Lower(s), i, i + Len(sub) - 1) = Lower(sub)

RateNotSuccess(answer) == answer.ok /\ answer.body.result # "success"

\* C2: a refresh whose rate source answers a payload with result other than
\* "success" fails with an upstream-unavailable status, not an internal error,
\* and leaves the countries, the batch row and its timestamp as they were.
C2_RateErrorIsUnavailable ==
    [][ (/\ last'.op = "refresh"
         /\ last'.arg.rates # None
         /\ RateNotSuccess(Val(last'.arg.rates)))
        => (/\ last'.status \in {HTTP_502, HTTP_503}
            /\ countries' = countries
            /\ country_db' = country_db) ]_vars

\* the currency code of an upstream country: that of its first currency entry
RawCode(raw) ==
    LET c == raw.currencies.val IN
    IF c # None /\ Val(c) # <<>> /\ Val(c)[1].code # <<>> THEN Some(Val(c)[1].code) ELSE None

\* C3: the estimated_gdp of every merged item of a refresh is 0 when the
\* country has no currency code, null when it has one the rate mapping lacks,
\* and population * rate * m with 1000 <= m <= 2000 when the mapping has a
\* rate for it, a rate of 0 included.
C3_EstimatedGdp ==
    (last.op = "refresh" /\ last.status = HTTP_201) =>
        \A i \in 1..Len(last.body) :
            LET raw == last.arg.countries.body[i]
                rates == Val(last.arg.rates).body.rates
                code == RawCode(raw)
                gdp == last.body[i].estimated_gdp
            IN IF code = None THEN gdp = Some(0)
               ELSE IF Val(code) \notin DOMAIN rates THEN gdp = None
               ELSE /\ gdp # None
                    /\ \E m \in RandLo..RandHi :
                          Val(gdp) = raw.population * rates[Val(code)] * m

\* C4: a refresh that succeeds on the same upstream answers as the successful
\* refresh right before it adds no row: the rows keep their ids, names and
\* places, each row the payload names carries the time of the second refresh
\* and every other row is as it was.
C4_SecondRefreshInPlace ==
    [][ last'.again =>
          /\ Len(countries') = Len(countries)
          /\ Names(countries') = Names(countries)
          /\ \A i \in 1..Len(countries) :
                /\ countries'[i].id = countries[i].id
                /\ countries'[i].name = countries[i].name
                /\ IF Lower(countries[i].name) \in Names(last'.body)
                   THEN countries'[i].last_refreshed_at = clock'
                   ELSE countries'[i] = countries[i] ]_vars

\* the second of two equal refreshes has been answered, two rows stored
C4_Witness ==
    /\ last.again
    /\ Len(countries) = 2
    /\ Len(last.body) = 2

\* C5: after clear-all has been answered the store holds no country record
\* and the cached summary image does not exist.
C5_ClearEmpties ==
    last.op = "clear" => (Len(countries) = 0 /\ ~image.exists)

\* clear-all has removed two records
C5_Witness ==
    /\ last.op = "clear"
    /\ Val(last.body) = 2

\* C6: GET /countries/{name} answers a record only if its name equals the
\* requested name case-insensitively, answers one whenever such a record is
\* stored, and answers 404 otherwise.
C6_FindByNameExact ==
    (last.op = "get" /\ last.arg # <<>>) =>
        IF \E i \in 1..Len(countries) : Lower(countries[i].name) = Lower(last.arg)
        THEN /\ last.status = HTTP_200
             /\ Lower(Val(last.body).name) = Lower(last.arg)
        ELSE last.status = HTTP_404

\* what the filters of a list request select, by substring
SubstringMatches(c, arg) ==
    /\ (arg.currency # None /\ Val(arg.currency) # <<>>) =>
           (c.currency_code # None /\ Contains(Val(c.currency_code), Val(arg.currency)))
    /\ (arg.region # None /\ Val(arg.region) # <<>>) =>
           (c.region # None /\ Contains(Val(c.region), Val(arg.region)))

\* C7: GET /countries answers exactly the stored records whose currency_code
\* and region contain the given filters as case-insensitive substrings, and
\* 404 when there is none.
C7_FilterBySubstring ==
    last.op = "list" =>
        LET expected == { countries[i] : i \in { k \in 1..Len(countries) :
                                                 SubstringMatches(countries[k], last.arg) } }
        IN IF expected = {} THEN last.status = HTTP_404
           ELSE /\ last.status = HTTP_200
                /\ { last.body[i] : i \in 1..Len(last.body) } = expected
                /\ Len(last.body) = Cardinality(expected)

\* C8: a descending list has no record before one of greater estimated_gdp
\* (null as 0), an ascending list none before one of smaller, records of equal
\* estimated_gdp keep their store order in both, and any other sort value
\* answers the records in store order.
C8_StableSort ==
    (last.op = "list" /\ last.status = HTTP_200) =>
        LET body == last.body
            found == QueryCountries(countries, last.arg.currency, last.arg.region)
        IN /\ Len(body) = Len(found)
           /\ { body[i] : i \in 1..Len(body) } = { found[i] : i \in 1..Len(found) }
           /\ \A i, j \in 1..Len(body) : i < j =>
                IF last.arg.sort = Some("gbd_desc")
                THEN \/ GdpKey(body[i]) > GdpKey(body[j])
                     \/ GdpKey(body[i]) = GdpKey(body[j]) /\ body[i].id < body[j].id
                ELSE IF last.arg.sort = Some("gdb_incr")
                THEN \/ GdpKey(body[i]) < GdpKey(body[j])
                     \/ GdpKey(body[i]) = GdpKey(body[j]) /\ body[i].id < body[j].id
                ELSE body[i].id < body[j].id

\* a descending list that moved a record and holds two of equal estimated_gdp
C8_Witness ==
    /\ last.op = "list"
    /\ last.status = HTTP_200
    /\ last.arg.sort = Some("gbd_desc")
    /\ Len(last.body) = 3
    /\ last.body[1].id > last.body[2].id
    /\ GdpKey(last.body[2]) = GdpKey(last.body[3])

\* C9: a refresh whose fetches and commit succeeded is answered 201 also when
\* writing the summary image fails.
C9_RenderFailureStill201 ==
    (last.op = "refresh" /\ last.arg.render = Some("OSError")) => last.status = HTTP_201

\* C10: GET /countries/image answers 404 when the cached image does not
\* exist and the cached image when it does.
C10_ImageOr404 ==
    last.op = "image" =>
        IF image.exists
        THEN last.status = HTTP_200 /\ last.body = Some(image)
        ELSE last.status = HTTP_404

\* C12: GET /countries/{name} with an empty name segment is answered 400.
C12_EmptyNameIs400 ==
    (last.op = "get" /\ last.arg = <<>>) => last.status = HTTP_400

\* C13 as stated: after clear-all has been answered no batch row exists.
C13_ClearDeletesBatch ==
    last.op = "clear" => country_db = <<>>

\* C13 as amended: clear-all deletes every country and keeps the batch row, if
\* there is one, stamping it with the time of the clear; a refresh that finds
\* a batch row reuses it and stamps it, adding none.
C13_ClearKeepsBatch ==
    [][ (last'.op \in {"clear", "refresh"} /\ clock' # clock) =>
          /\ last'.op = "clear" => countries' = <<>>
          /\ country_db # <<>> =>
                /\ Len(country_db') = Len(country_db)
                /\ \A i \in 1..Len(country_db) : country_db'[i].id = country_db[i].id
                /\ country_db'[1].last_refreshed_at = clock' ]_vars

\* clear-all has removed records of a store that holds a batch row
C13_Witness ==
    /\ last.op = "clear"
    /\ Val(last.body) > 0
    /\ country_db # <<>>
    /\ country_db[1].last_refreshed_at = clock

\* C14: GET /health is answered 200 with {success: true, message: "Ok"} and
\* leaves the countries, the batch and the cached image as they were.
C14_HealthOk ==
    [][ last'.op = "health" =>
          /\ last'.status = HTTP_200
          /\ last'.body = Some([success |-> TRUE, message |-> "Ok"])
          /\ UNCHANGED <<countries, country_db, image>> ]_vars

\* /health has been answered on a populated store
C14_Witness ==
    /\ last.op = "health"
    /\ countries # <<>>
    /\ image.exists

\* C16: a refresh whose country source answers a non-empty list does not fail
\* on a country without a currency entry, and every merged item carries the
\* code of the country's first currency entry (null when it has none) and the
\* mapping's rate for that code (null when the code is null or not mapped).
C16_CurrencyMerge ==
    (last.op = "refresh" /\ last.arg.countries.ok /\ last.arg.countries.body # <<>>) =>
        /\ last.arg.rates # None
        /\ last.status = HTTP_201 =>
              \A i \in 1..Len(last.body) :
                  LET code == RawCode(last.arg.countries.body[i])
                      rates == Val(last.arg.rates).body.rates
                  IN /\ last.body[i].currency_code = code
                     /\ last.body[i].exchange_rate =
                            IF code = None THEN None ELSE DictGet(rates, Val(code))

\* C17: once DELETE /countries/{name} is answered 200, GET /countries/{name}
\* with the same name is answered 404, and every record whose name differs
\* from the requested one (case-insensitively) is still stored unchanged.
C17_DeleteThenGet404 ==
    [][ (last'.op = "delete" /\ last'.status = HTTP_200) =>
          /\ GetCountry(countries', last'.arg).status = HTTP_404
          /\ \A i \in 1..Len(countries) :
                Lower(countries[i].name) # Lower(last'.arg) =>
                    \E j \in 1..Len(countries') : countries'[j] = countries[i] ]_vars

\* C15: over any interleaving of refresh handlers at their two fetches the
\* store never holds more than one batch row; a refresh that writes the
\* store creates the row if there is none and otherwise keeps the row it
\* finds, with its id, and only sets its timestamp
C15_OneBatchUnderOverlap ==
    [][ /\ Len(country_db') <= 1
        /\ clock' # clock =>
              /\ Len(country_db') = 1
              /\ country_db'[1].last_refreshed_at = clock'
              /\ country_db # <<>> =>
                    [country_db'[1] EXCEPT !.last_refreshed_at = 0]
                      = [country_db[1] EXCEPT !.last_refreshed_at = 0] ]_vars

\* both clients' refreshes were answered 201, one of them having written the
\* store while the other was suspended at a fetch
C15_Witness ==
    /\ \A c \in Clients : tasks[c].pc = "idle" /\ tasks[c].status = HTTP_201
    /\ \E c \in Clients : tasks[c].passed
    /\ Len(country_db) = 1
    /\ country_db[1].last_refreshed_at = 2

\* C11: for each limited route and client, once 8 requests were accepted in
\* the minute, a further request of that client to that route in the same
\* minute is answered 429 with {success: false, error: ...} and the handler
\* does not run
C11_OverQuotaIs429 ==
    [][ \A k \in Keys :
          (served[k] >= RateLimit /\ Dispatch(k[1], k[2])) =>
             /\ last'.status = HTTP_429
             /\ last'.body # None /\ Val(last'.body).success = FALSE
             /\ served'[k] = served[k] ]_vars

=============================================================================
